---- MODULE Spec2Model ----
(***************************************************************************)
(* The online dictionary-learning engine of modl/dict_fact.py (DictFact)   *)
(* as a state machine.                                                     *)
(*                                                                         *)
(* Numbers.  The engine computes in floating point; the model computes in  *)
(* fixed point over the integers.  Dictionary entries and data entries are *)
(* integers in units of 1/Unit (Unit stands for 1.0, the radius of the     *)
(* elastic-net ball), codes are integers, and every product of the source  *)
(* is the same product here.  A division rounds to nearest (RoundDiv); the *)
(* ball primitives (enet_scale, enet_projection_fast) round inwards, so    *)
(* that "norm <= 1" is the exact-arithmetic statement.                     *)
(*                                                                         *)
(* Indices.  Rows, columns and atoms are numbered from 1 (Python: from 0). *)
(***************************************************************************)
EXTENDS Integers, Sequences, FiniteSets, TLC

\* ------------------------------------------------------------------ bounds
\* 1.0 in the fixed-point representation of dictionary and data entries.
Unit == 4
\* partial_fit calls the caller makes in one session.
MaxCalls == 2
\* _update_dict calls of one run of SpecDict.
MaxUpdates == 2
\* Passes of coordinate descent the code solver may take (the source allows
\* 100 and stops earlier on a tolerance).
max_iter == 3

\* ----------------------------------------------------- configuration, data
\* DictFact.__init__ arguments held fixed in every modelled engine.
n_components == 2
batch_size == 2
n_epochs == 2
\* The l1 penalty on the codes, in the units of a cross-product (1/Unit^2).
code_alpha == 1

\* The data matrix the caller holds: n_samples rows of n_features entries,
\* each row of elastic-net (l1) norm Unit.
XData ==
  << << Unit \div 2, -(Unit \div 4), Unit - (Unit \div 2) - (Unit \div 4) >>,
     << -(Unit \div 4), Unit - (Unit \div 2) - (Unit \div 4), Unit \div 2 >> >>
n_samples == Len(XData)
n_features == Len(XData[1])

Rows == 1..n_samples
Feats == 1..n_features
Atoms == 1..n_components

AggModes == {"full", "masked", "average"}

\* The value shown for an attribute that was never assigned.  The names of
\* the assigned attributes are in self.has; reading another one raises
\* AttributeError.
Unset == "unset"

\* ------------------------------------------------------------- arithmetic
Abs(a) == IF a < 0 THEN -a ELSE a
Sgn(a) == IF a < 0 THEN -1 ELSE IF a > 0 THEN 1 ELSE 0
Max(a, b) == IF a < b THEN b ELSE a

\* a / b for b > 0, rounded to nearest (floating-point division).
RoundDiv(a, b) == Sgn(a) * ((2 * Abs(a) + b) \div (2 * b))
\* a / b for b > 0, rounded towards zero.
TruncDiv(a, b) == Sgn(a) * (Abs(a) \div b)

RECURSIVE SumTo(_, _)
SumTo(f, n) == IF n = 0 THEN 0 ELSE f[n] + SumTo(f, n - 1)
Sum(v) == SumTo(v, Len(v))

\* A sequence and a matrix given as functions, as the tuples they are (TLC
\* then holds their entries instead of recomputing them at every use).
Vec(f) == SubSeq(f, 1, Len(f))
Mat(f) == Vec([i \in 1..Len(f) |-> Vec(f[i])])

Dot(u, v) == Sum([i \in 1..Len(u) |-> u[i] * v[i]])
\* A . B^T for two matrices with rows of the same length.
MulT(A, B) == Mat([i \in 1..Len(A) |-> [k \in 1..Len(B) |-> Dot(A[i], B[k])]])
\* A^T . B for two matrices with the same number of rows.
TMul(A, B) ==
  Mat([k \in 1..Len(A[1]) |->
         [j \in 1..Len(B[1]) |-> Sum([i \in 1..Len(A) |-> A[i][k] * B[i][j]])]])
\* A . B.
Mul(A, B) ==
  Mat([i \in 1..Len(A) |->
         [j \in 1..Len(B[1]) |-> Sum([k \in 1..Len(B) |-> A[i][k] * B[k][j]])]])
MatAdd(A, B) == Mat([i \in 1..Len(A) |-> [j \in 1..Len(A[i]) |-> A[i][j] + B[i][j]]])
MatSub(A, B) == Mat([i \in 1..Len(A) |-> [j \in 1..Len(A[i]) |-> A[i][j] - B[i][j]]])
MatScale(A, c) == Mat([i \in 1..Len(A) |-> [j \in 1..Len(A[i]) |-> A[i][j] * c]])
Zeros(n, m) == Mat([i \in 1..n |-> [j \in 1..m |-> 0]])
Ones(n, m) == Mat([i \in 1..n |-> [j \in 1..m |-> 1]])
\* u (x) v, the outer product.
Outer(u, v) == Mat([i \in 1..Len(u) |-> [j \in 1..Len(v) |-> u[i] * v[j]]])

Range(s) == {s[i] : i \in 1..Len(s)}
\* M[:, subset] (fancy indexing: a copy).
Cols(M, subset) ==
  Mat([i \in 1..Len(M) |-> [j \in 1..Len(subset) |-> M[i][subset[j]]]])
\* M[:, subset] = S.
SetCols(M, subset, S) ==
  Mat([i \in 1..Len(M) |->
         [c \in 1..Len(M[i]) |->
            IF c \in Range(subset)
            THEN S[i][CHOOSE j \in 1..Len(subset) : subset[j] = c]
            ELSE M[i][c]]])
\* a[rows] for an index sequence (a copy).
Take(a, idx) == Vec([j \in 1..Len(idx) |-> a[idx[j]]])
\* a[idx] = vals: with a repeated index the last assignment stands.
Scatter(a, idx, vals) ==
  Vec([p \in 1..Len(a) |->
         IF p \in Range(idx)
         THEN vals[CHOOSE j \in 1..Len(idx) :
                     idx[j] = p /\ \A j2 \in 1..Len(idx) : idx[j2] = p => j2 <= j]
         ELSE a[p]])

\* The permutations of 1..n, as sequences.
Perms(n) ==
  {Vec(p) : p \in {q \in [1..n -> 1..n] : \A i, j \in 1..n : q[i] = q[j] => i = j}}
\* The increasing sequences of len distinct indices of 1..n.
SubsetsOfLen(n, len) ==
  {Vec(s) : s \in {q \in [1..len -> 1..n] : \A i, j \in 1..len : i < j => q[i] < q[j]}}

\* ------------------------------------------------- external primitives
\* enet_norm_fast(v, l1_ratio) at comp_l1_ratio = 1: the l1 norm.  The norm
\* is a sum over the entries, as is the elastic-net norm at every ratio.
enet_norm_fast(v) == Sum([i \in 1..Len(v) |-> Abs(v[i])])

\* Soft thresholding of v by theta.
Shrink(v, theta) == Vec([i \in 1..Len(v) |-> Sgn(v[i]) * Max(Abs(v[i]) - theta, 0)])
\* enet_projection_fast(v, out, radius, l1_ratio): the projection of v on the
\* ball of the given radius, by the least threshold that brings v inside.
enet_projection_fast(v, radius) ==
  LET Inside(t) == enet_norm_fast(Shrink(v, t)) <= Max(radius, 0)
      theta == CHOOSE t \in 0..enet_norm_fast(v) :
                 Inside(t) /\ (t = 0 \/ ~Inside(t - 1))
  IN Shrink(v, theta)

\* enet_scale(M, l1_ratio, radius): every row scaled to norm radius (a zero
\* row stays zero).
enet_scale(M, radius) ==
  Mat([k \in 1..Len(M) |->
         LET nrm == enet_norm_fast(M[k])
         IN [j \in 1..Len(M[k]) |->
               IF nrm = 0 THEN 0 ELSE TruncDiv(M[k][j] * radius, nrm)]])

\* One pass of cd_fast.enet_coordinate_descent_gram over the coordinates
\* j..Len(w) of the code w: Gram matrix Q, cross-product q, l1 penalty alpha,
\* l2 penalty beta.
RECURSIVE CdCoord(_, _, _, _, _, _, _)
CdCoord(w, j, Q, q, alpha, beta, positive) ==
  IF j > Len(w) THEN w
  ELSE IF Q[j][j] = 0 THEN CdCoord(w, j + 1, Q, q, alpha, beta, positive)
  ELSE
    LET tmp == q[j] - Sum([k \in 1..Len(w) |-> IF k = j THEN 0 ELSE Q[j][k] * w[k]])
        new == IF positive /\ tmp < 0 THEN 0
               ELSE RoundDiv(Sgn(tmp) * Max(Abs(tmp) - alpha, 0), Q[j][j] + beta)
    IN CdCoord([w EXCEPT ![j] = new], j + 1, Q, q, alpha, beta, positive)

\* The passes of the solver: until a pass changes nothing, at most iters.
RECURSIVE CdSolve(_, _, _, _, _, _, _)
CdSolve(w, iters, Q, q, alpha, beta, positive) ==
  IF iters = 0 THEN w
  ELSE LET w2 == CdCoord(w, 1, Q, q, alpha, beta, positive)
       IN IF w2 = w THEN w
          ELSE CdSolve(w2, iters - 1, Q, q, alpha, beta, positive)

\* enet_regression_multi_gram(G, Dx, X, code, l1_ratio, alpha, positive) at
\* code_l1_ratio = 1: row i of the batch is solved against its own Gram
\* matrix G[i].  enet_regression_single_gram is the case of one matrix for
\* every row (see SolverGram).
enet_regression_multi_gram(G, Dx, code, positive) ==
  Mat([i \in 1..Len(code) |->
         CdSolve(code[i], max_iter, G[i], Dx[i], code_alpha, 0, positive)])

\* batch_weight(count, batch_size, learning_rate, 0) at learning_rate = 1:
\* 1 - prod_{i = count + 1 - batch_size .. count} (1 - 1/i) = batch_size/count,
\* as the pair <<numerator, denominator>>.
batch_weight(count, bsize) == << bsize, count >>

\* ------------------------------------------------ sufficient statistics
\* M *= 1 - w.
Decay(M, w) ==
  Mat([i \in 1..Len(M) |->
         [j \in 1..Len(M[i]) |-> RoundDiv(M[i][j] * (w[2] - w[1]), w[2])]])
\* M += w * Y / bsize.
Gain(M, Y, w, bsize) ==
  Mat([i \in 1..Len(M) |->
         [j \in 1..Len(M[i]) |-> M[i][j] + RoundDiv(Y[i][j] * w[1], w[2] * bsize)]])

\* _update_C(this_code, w).
update_C(C, code, w) == Gain(Decay(C, w), TMul(code, code), w, Len(code))
\* _update_B(X, code, w), for an X of n_features columns.
update_B(B, X, code, w) == Gain(Decay(B, w), TMul(code, X), w, Len(X))

\* --------------------------------------------------- dictionary update
\* The radius _update_dict hands to enet_projection_fast for an atom whose
\* norm cache (after the subset's pre-update norm was added to it) is cache.
ProjectionRadiusWhole(cache) == Unit
ProjectionRadius(cache) == cache

\* len_subset < n_features / 2.
SmallSubset(len, nfeat) == 2 * len < nfeat

\* self.G_ -= components_subset.dot(components_subset.T).
GramDowndateSkipped(G, Ds) == G
GramDowndate(G, Ds) == MatSub(G, MulT(Ds, Ds))

\* self.components_[:, subset] = components_subset.
WriteBackLeading(D, subset, Ds) == SetCols(D, Vec([j \in 1..Len(subset) |-> j]), Ds)
WriteBack(D, subset, Ds) == SetCols(D, subset, Ds)

\* The body of the loop of _update_dict for atom k.  st holds the subset
\* block Ds of the dictionary, the subset block gs of the gradient and the
\* norm cache nrm.
AtomStep(k, st, C, comp_pos) ==
  LET nrm1 == st.nrm[k] + enet_norm_fast(st.Ds[k])
      gs1 == MatAdd(st.gs, Outer(C[k], st.Ds[k]))
      row1 == IF C[k][k] > 0
              THEN Vec([j \in 1..Len(st.Ds[k]) |-> RoundDiv(gs1[k][j], C[k][k])])
              ELSE st.Ds[k]
      Ds1 == [st.Ds EXCEPT ![k] = row1]
      Ds2 == IF comp_pos
             THEN Mat([a \in 1..Len(Ds1) |-> [j \in 1..Len(Ds1[a]) |-> Max(Ds1[a][j], 0)]])
             ELSE Ds1
      row3 == enet_projection_fast(Ds2[k], ProjectionRadius(nrm1))
      Ds3 == [Ds2 EXCEPT ![k] = row3]
  IN [Ds |-> Ds3,
      gs |-> MatSub(gs1, Outer(C[k], row3)),
      nrm |-> [st.nrm EXCEPT ![k] = nrm1 - enet_norm_fast(row3)]]

\* The loop of _update_dict over the atoms order[i], order[i+1], ...
RECURSIVE Sweep(_, _, _, _, _)
Sweep(order, i, st, C, comp_pos) ==
  IF i > Len(order) THEN st
  ELSE Sweep(order, i + 1, AtomStep(order[i], st, C, comp_pos), C, comp_pos)

\* _update_dict(subset) with the atoms visited in the given order: the new
\* components_, G_ and comp_norm_ (gradient_ itself is left as it is: the
\* sweep works on a copy of its subset block).
update_dict(D, G, nrm, C, gradient, subset, order, G_agg, comp_pos) ==
  LET Ds0 == Cols(D, subset)
      small == SmallSubset(Len(subset), Len(D[1]))
      G1 == IF G_agg = "full" /\ small THEN GramDowndate(G, Ds0) ELSE G
      gs0 == MatSub(Cols(gradient, subset), Mul(C, Ds0))
      st == Sweep(order, 1, [Ds |-> Ds0, gs |-> gs0, nrm |-> nrm], C, comp_pos)
      D2 == WriteBack(D, subset, st.Ds)
      G2 == IF G_agg # "full" THEN G1
            ELSE IF small THEN MatAdd(G1, MulT(st.Ds, st.Ds))
            ELSE MulT(D2, D2)
  IN [components_ |-> D2, G_ |-> G2, comp_norm_ |-> st.nrm]

\* The path _update_dict takes for G_ on a subset of len of nfeat features.
GramPath(G_agg, len, nfeat) ==
  IF G_agg # "full" THEN "none"
  ELSE IF SmallSubset(len, nfeat) THEN "downdate" ELSE "recompute"

\* self.gradient_[:, subset] = self.B_[:, subset].
CopyGradient(gradient, B, subset) == SetCols(gradient, subset, Cols(B, subset))

\* The gradient update of _update_stat_partial_and_dict:
\* gradient_[:, subset] *= 1 - w; gradient_[:, subset] += w * code.T.dot(X_subset) / batch_size.
PartialGradient(gradient, X, code, w, subset) ==
  SetCols(gradient, subset,
          Gain(Decay(Cols(gradient, subset), w), TMul(code, Cols(X, subset)), w, Len(X)))

\* _update_stat_and_dict(subset, X, code, w) with the atoms visited in the
\* given order, on the state e (a record of the engine's fields).
update_stat_and_dict(e, subset, X, code, w, order, G_agg, comp_pos) ==
  LET C1 == update_C(e.C_, code, w)
      B1 == update_B(e.B_, X, code, w)
      g1 == CopyGradient(e.gradient_, B1, subset)
      d == update_dict(e.components_, e.G_, e.comp_norm_, C1, g1, subset, order,
                       G_agg, comp_pos)
  IN [C_ |-> C1, B_ |-> B1, gradient_ |-> g1, components_ |-> d.components_,
      G_ |-> d.G_, comp_norm_ |-> d.comp_norm_]

\* ------------------------------------------------------- code inference
NoErr == [kind |-> "none", line |-> 0]
Raised(kind, line) == [kind |-> kind, line |-> line]

\* v * (1 - 1/cnt) and v + y/cnt, entry by entry: the per-row running
\* average with w_sample = cnt ** -sample_learning_rate at
\* sample_learning_rate = 1.
VecDecay(v, cnt) == Vec([k \in 1..Len(v) |-> RoundDiv(v[k] * (cnt - 1), cnt)])
VecGain(v, y, cnt) == Vec([k \in 1..Len(v) |-> v[k] + RoundDiv(y[k], cnt)])
MatDecay(M, cnt) == Vec([k \in 1..Len(M) |-> VecDecay(M[k], cnt)])
MatGain(M, Y, cnt) == Vec([k \in 1..Len(M) |-> VecGain(M[k], Y[k], cnt)])

\* self.Dx_average_[sample_indices] *= 1 - w_sample[:, np.newaxis];
\* self.Dx_average_[sample_indices] += Dx * w_sample[:, np.newaxis].
DxAverage(A, idx, Dx, cnt) ==
  LET A1 == Scatter(A, idx, Vec([j \in 1..Len(idx) |-> VecDecay(A[idx[j]], cnt[j])]))
  IN Scatter(A1, idx, Vec([j \in 1..Len(idx) |-> VecGain(A1[idx[j]], Dx[j], cnt[j])]))

\* The same two statements on G_average_, in one thread, for the rows js of
\* the batch: every row receives the one matrix G.
GAverageRows(A, idx, js, G, cnt) ==
  LET sub == Vec([j \in 1..Len(js) |-> idx[js[j]]])
      A1 == Scatter(A, sub, Vec([j \in 1..Len(js) |-> MatDecay(A[sub[j]], cnt[js[j]])]))
  IN Scatter(A1, sub, Vec([j \in 1..Len(js) |-> MatGain(A1[sub[j]], G, cnt[js[j]])]))

\* ceil(a / b).
CeilDiv(a, b) == (a + b - 1) \div b
\* list(gen_batches(n, size)): the row blocks, each a sequence of rows.
gen_batches(n, size) ==
  Mat([b \in 1..CeilDiv(n, size) |->
         [j \in 1..(IF b * size <= n THEN size ELSE n - (b - 1) * size) |->
            (b - 1) * size + j]])

\* par_func of _compute_code run by one pool thread per row block.  Each of
\* its two statements reads the rows of its block and then writes them, and
\* the threads may be switched between any two of these four steps: the set
\* of the values G_average_ may hold when every thread is through.  pcs[b]
\* counts the steps block b has taken, tmps[b] holds what it last read.
RECURSIVE GAverageParallel(_, _, _, _, _, _, _)
GAverageParallel(A, idx, blocks, G, cnt, pcs, tmps) ==
  LET live == {b \in 1..Len(blocks) : pcs[b] < 4}
      sub(b) == Vec([j \in 1..Len(blocks[b]) |-> idx[blocks[b][j]]])
      c(b, j) == cnt[blocks[b][j]]
      Step(b) ==
        CASE pcs[b] \in {0, 2} ->
               GAverageParallel(A, idx, blocks, G, cnt, [pcs EXCEPT ![b] = @ + 1],
                                [tmps EXCEPT ![b] = Take(A, sub(b))])
          [] pcs[b] = 1 ->
               GAverageParallel(
                 Scatter(A, sub(b),
                         Vec([j \in 1..Len(blocks[b]) |-> MatDecay(tmps[b][j], c(b, j))])),
                 idx, blocks, G, cnt, [pcs EXCEPT ![b] = 2], tmps)
          [] pcs[b] = 3 ->
               GAverageParallel(
                 Scatter(A, sub(b),
                         Vec([j \in 1..Len(blocks[b]) |-> MatGain(tmps[b][j], G, c(b, j))])),
                 idx, blocks, G, cnt, [pcs EXCEPT ![b] = 4], tmps)
  IN IF live = {} THEN {A} ELSE UNION {Step(b) : b \in live}

\* The values of G_average_ after the update of _compute_code.
GAverage(A, idx, G, cnt, n_threads) ==
  IF n_threads > 1
  THEN LET blocks == gen_batches(Len(idx), CeilDiv(Len(idx), n_threads))
       IN GAverageParallel(A, idx, blocks, G, cnt,
                           Vec([b \in 1..Len(blocks) |-> 0]),
                           Vec([b \in 1..Len(blocks) |-> << >>]))
  ELSE {GAverageRows(A, idx, Vec([j \in 1..Len(idx) |-> j]), G, cnt)}

\* The Gram matrices _compute_code hands to the solver, one per row of the
\* batch: self.G_ under 'full'; self.G_average_[sample_indices] under every
\* other mode.
SolverGram(G_agg, G, Gavg, idx) ==
  IF G_agg = "full" THEN Vec([j \in 1..Len(idx) |-> G]) ELSE Take(Gavg, idx)

\* _compute_code(X, sample_indices, w_sample, subset) on the state e, for
\* the batch Xb whose rows go to the positions idx, cnt being the visit
\* counters of these positions: the set of its outcomes, each the error
\* raised (NoErr: none) and the fields it has assigned by then.
compute_code(e, cf, Xb, idx, cnt, subset) ==
  LET ncols == Len(Xb[1])
      Ds == Cols(e.components_, subset)
      failDx ==
        IF cf.Dx_agg = "full"
        THEN IF ncols # n_features THEN Raised("ValueError", 294) ELSE NoErr
        ELSE IF \E j \in Range(subset) : j > ncols THEN Raised("IndexError", 296)
        ELSE NoErr
      DxPart == MatScale(MulT(Cols(Xb, subset), Ds), cf.reduction)
      Dxa == IF cf.Dx_agg = "average"
             THEN DxAverage(e.Dx_average_, idx, DxPart, cnt)
             ELSE e.Dx_average_
      Dx == CASE cf.Dx_agg = "full" -> MulT(Xb, e.components_)
              [] cf.Dx_agg = "masked" -> DxPart
              [] cf.Dx_agg = "average" -> Take(Dxa, idx)
      Gpart == MatScale(MulT(Ds, Ds), cf.reduction)
      Gavgs == IF cf.G_agg = "average"
               THEN GAverage(e.G_average_, idx, Gpart, cnt, cf.n_threads)
               ELSE {e.G_average_}
      warm == Take(e.code_, idx)
      Out(err, Dxa2, Gavg2, code2, sg, wm) ==
        [err |-> err, Dx_average_ |-> Dxa2, G_average_ |-> Gavg2, code_ |-> code2,
         solver_G |-> sg, solver_warm |-> wm]
  IN IF failDx # NoErr
     THEN {Out(failDx, e.Dx_average_, e.G_average_, e.code_, << >>, << >>)}
     ELSE { LET Gs == SolverGram(cf.G_agg, e.G_, Gavg, idx)
            IN IF cf.G_agg # "full" /\ "G_average_" \notin e.has
               THEN Out(Raised("AttributeError", 326), Dxa, Gavg, e.code_, << >>, << >>)
               ELSE Out(NoErr, Dxa, Gavg,
                        Scatter(e.code_, idx,
                                enet_regression_multi_gram(Gs, Dx, warm, cf.code_pos)),
                        Gs, warm)
            : Gavg \in Gavgs }

\* ---------------------------------------------------------------- state
VARIABLES
  cf,           \* the constructor arguments that vary between engines
  self,         \* the engine's attributes (Unset: never assigned)
  pc,           \* where the caller's call stands
  call,         \* the running (or last) fit / partial_fit call and its locals
  batch,        \* the locals of the running (or last) _single_batch_fit
  par,          \* the two tasks of _update_stat_and_dict_parallel
  err,          \* the exception that ended the call (NoErr: none)
  calls,        \* partial_fit calls made
  pre,          \* the engine's attributes when the running partial_fit began
  seen          \* what the caller has seen happen: the batches and rows
                \* handed to _single_batch_fit, per sample the times it was
                \* among them, per position of code_ the sample the code
                \* there was last inferred for, and the path every
                \* _update_dict took for G_

vars == << cf, self, pc, call, batch, par, err, calls, pre, seen >>

Reductions == {1, n_features}
\* The engines modelled.  Dx_agg bears on _compute_code alone, which runs
\* before the pool's two tasks are submitted: the engines with a pool are
\* modelled with the default Dx_agg = 'masked'.
Configs ==
  {c \in [G_agg : AggModes, Dx_agg : AggModes, n_threads : {1, 2}, verbose : {0, 1},
          comp_pos : BOOLEAN, code_pos : {FALSE}, reduction : Reductions] :
     c.n_threads > 1 => c.Dx_agg = "masked"}

Fresh ==
  [has |-> {}, G_average_ |-> Unset, Dx_average_ |-> Unset, C_ |-> Unset, B_ |-> Unset,
   gradient_ |-> Unset, components_ |-> Unset, code_ |-> Unset,
   comp_norm_ |-> Unset, G_ |-> Unset, n_iter_ |-> Unset,
   sample_n_iter_ |-> Unset, feature_sampler_ |-> Unset, verbose_iter_ |-> Unset]

NoCall == [kind |-> "none", X |-> << >>, rowid |-> << >>, ids |-> << >>,
           cursor |-> 0, epoch |-> 0]
NoBatch == [subset |-> << >>, idx |-> << >>, X |-> << >>, w |-> << 0, 1 >>,
            who |-> << >>, warm_owner |-> << >>,
            D_pre |-> Unset, solver_G |-> << >>, stage |-> "none"]
NoPar == [dict |-> "idle", B |-> "idle", pre |-> Unset, code |-> << >>,
          order |-> << >>, B_err |-> NoErr, joined |-> FALSE]

Identity(n) == Vec([i \in 1..n |-> i])
NothingSeen == [batches |-> 0, rows |-> 0, visits |-> Vec([i \in Rows |-> 0]),
                code_owner |-> Identity(n_samples), paths |-> << >>]

\* (np.logspace(0, log_lim, verbose, base=10) - 1) * batch_size for
\* verbose = 1: the one threshold 0.
verbose_iter(verbose) == IF verbose = 1 THEN << 0 >> ELSE << >>

\* prepare(X=X) on a fresh engine, random_idx being the rows drawn for the
\* initial dictionary.
prepare(c, X, random_idx) ==
  LET picked == Take(X, random_idx)
      flipped == IF c.comp_pos
                 THEN Mat([k \in 1..Len(picked) |->
                             [j \in 1..Len(picked[k]) |-> Abs(picked[k][j])]])
                 ELSE picked
      D == enet_scale(flipped, Unit)
  IN [has |-> {"C_", "B_", "gradient_", "components_", "code_", "comp_norm_",
              "n_iter_", "sample_n_iter_", "feature_sampler_"}
               \cup (IF c.G_agg = "average" THEN {"G_average_"} ELSE {})
               \cup (IF c.Dx_agg = "average" THEN {"Dx_average_"} ELSE {})
               \cup (IF c.G_agg = "full" THEN {"G_"} ELSE {})
               \cup (IF c.verbose > 0 THEN {"verbose_iter_"} ELSE {}),
      G_average_ |-> IF c.G_agg = "average"
                     THEN Vec([i \in 1..Len(X) |-> Zeros(n_components, n_components)])
                     ELSE Unset,
      Dx_average_ |-> IF c.Dx_agg = "average"
                      THEN Zeros(Len(X), n_components) ELSE Unset,
      C_ |-> Zeros(n_components, n_components),
      B_ |-> Zeros(n_components, Len(X[1])),
      gradient_ |-> Zeros(n_components, Len(X[1])),
      components_ |-> D,
      code_ |-> Ones(Len(X), n_components),
      comp_norm_ |-> Vec([k \in 1..n_components |-> 0]),
      G_ |-> IF c.G_agg = "full" THEN MulT(D, D) ELSE Unset,
      n_iter_ |-> 0,
      sample_n_iter_ |-> Vec([i \in 1..Len(X) |-> 0]),
      feature_sampler_ |-> 0,
      verbose_iter_ |-> IF c.verbose > 0 THEN verbose_iter(c.verbose) ELSE Unset]

\* self.random_state_.permutation(this_n_samples)[:self.n_components].
RandomIdx(n) == {Vec([k \in 1..n_components |-> p[k]]) : p \in Perms(n)}

Init ==
  /\ cf \in Configs
  /\ self = Fresh
  /\ pc = "idle"
  /\ call = NoCall
  /\ batch = NoBatch
  /\ par = NoPar
  /\ err = NoErr
  /\ calls = 0
  /\ pre = Unset
  /\ seen = NothingSeen

\* The caller prepares a session on its data: prepare(X=X).
PrepareCall ==
  /\ pc = "idle" /\ self.has = {}
  /\ \E idx \in RandomIdx(n_samples) : self' = prepare(cf, XData, idx)
  /\ UNCHANGED << cf, pc, call, batch, par, err, calls, pre, seen >>

\* fit(X) up to its loop: prepare(X=X).
FitCall ==
  /\ pc = "idle" /\ self.has = {}
  /\ \E idx \in RandomIdx(n_samples) : self' = prepare(cf, XData, idx)
  /\ call' = [kind |-> "fit", X |-> XData, rowid |-> Identity(n_samples),
              ids |-> << >>, cursor |-> 0, epoch |-> 0]
  /\ pc' = "epoch"
  /\ UNCHANGED << cf, batch, par, err, calls, pre, seen >>

\* One pass of the loop of fit up to its call of partial_fit: the rows of X
\* and the per-row state are permuted.  self.G_average and self.Dx_average
\* are attributes no statement assigns: reading them raises.
FitEpoch ==
  /\ pc = "epoch" /\ call.epoch < n_epochs
  /\ \E permutation \in Perms(Len(call.X)) :
       IF cf.G_agg = "average"
       THEN /\ err' = Raised("AttributeError", 87) /\ pc' = "failed"
            /\ UNCHANGED << self, call >>
       ELSE IF cf.Dx_agg = "average"
       THEN /\ err' = Raised("AttributeError", 89) /\ pc' = "failed"
            /\ UNCHANGED << self, call >>
       ELSE /\ self' = [self EXCEPT !.sample_n_iter_ = Take(@, permutation)]
            /\ call' = [call EXCEPT !.X = Take(@, permutation),
                                    !.rowid = Take(@, permutation),
                                    !.epoch = @ + 1, !.cursor = 0]
            /\ pc' = "batch"
            /\ UNCHANGED err
  /\ UNCHANGED << cf, batch, par, calls, pre, seen >>

\* fit returns once its loop is through.
FitReturn ==
  /\ pc = "epoch" /\ call.epoch = n_epochs
  /\ pc' = "idle"
  /\ UNCHANGED << cf, self, call, batch, par, err, calls, pre, seen >>

\* What the caller passes to partial_fit as X: its data, or a matrix with
\* one column fewer or one column more than the session was prepared with.
XArg(shape) ==
  CASE shape = "same" -> XData
    [] shape = "fewer" -> Vec([i \in Rows |-> SubSeq(XData[i], 1, n_features - 1)])
    [] shape = "more" -> Vec([i \in Rows |-> Append(XData[i], Unit)])
\* The calls of partial_fit the caller makes: <<X, sample_indices>>, with
\* the empty sequence for sample_indices=None; the caller's own row ids name
\* one sample for every row.
PartialFitArgs ==
  {<< sh, << >> >> : sh \in {"same", "fewer", "more"}}
    \cup {<< "same", Vec([i \in Rows |-> 1]) >>}

\* partial_fit(X, sample_indices) up to its loop.  A session is one fit, or
\* a prepare followed by the caller's own partial_fit calls.
PartialFitCall ==
  /\ pc = "idle" /\ self.has # {} /\ call.kind # "fit" /\ calls < MaxCalls
  /\ \E a \in PartialFitArgs :
       call' = [kind |-> "partial_fit", X |-> XArg(a[1]), rowid |-> << >>,
                ids |-> a[2], cursor |-> 0, epoch |-> 0]
  /\ pre' = self
  /\ calls' = calls + 1
  /\ pc' = "batch"
  /\ UNCHANGED << cf, self, batch, par, err, seen >>

\* self.feature_sampler_.yield_subset(reduction): the subsets the sampler
\* may yield, each an increasing sequence of n_features / reduction indices.
yield_subset(nfeat, reduction) == SubsetsOfLen(nfeat, nfeat \div reduction)

\* self.sample_n_iter_[sample_indices] += 1.
BumpVisits(cnt, idx) ==
  Scatter(cnt, idx, Vec([j \in 1..Len(idx) |-> cnt[idx[j]] + 1]))

\* The gradient assignment of _update_stat_and_dict_parallel, made before
\* the two tasks are submitted.
ForkGradientSkipped(gradient, B, subset) == gradient
ForkGradient(gradient, B, subset) == CopyGradient(gradient, B, subset)

\* dict_thread.result(); B_thread.result(): what the caller waits for.
JoinReady(p) == p.dict = "done" /\ p.B = "done"

\* The rows of the batch that starts after row cursor of an X of n rows.
BatchRows(cursor, n) ==
  Vec([j \in 1..(IF cursor + batch_size <= n THEN batch_size ELSE n - cursor) |->
         cursor + j])

CountOf(who, s) == Cardinality({j \in 1..Len(who) : who[j] = s})

\* _single_batch_fit(this_X, these_sample_indices) for the next batch of the
\* running partial_fit: with one thread the whole of it, with a pool up to
\* the submission of the two tasks.
SingleBatchFit ==
  /\ pc = "batch" /\ call.cursor < Len(call.X)
  /\ LET rows == BatchRows(call.cursor, Len(call.X))
         Xb == Take(call.X, rows)
         idx == IF call.ids = << >> THEN rows ELSE Take(call.ids, rows)
         who == IF call.kind = "fit" THEN Take(call.rowid, rows) ELSE idx
         nfeat == Len(self.components_[1])
         Fail(s, b, e) ==
           /\ self' = s /\ batch' = b /\ err' = e /\ pc' = "failed"
           /\ par' = NoPar
           /\ UNCHANGED call
     IN IF "verbose_iter_" \notin self.has
        THEN /\ Fail(self, [NoBatch EXCEPT !.stage = "verbose"],
                     Raised("AttributeError", 224))
             /\ UNCHANGED seen
        ELSE \E subset \in yield_subset(nfeat, cf.reduction) :
          LET vi == self.verbose_iter_
              s1 == [self EXCEPT
                       !.verbose_iter_ =
                          IF vi # << >> /\ self.n_iter_ >= vi[1] THEN Tail(vi) ELSE vi,
                       !.feature_sampler_ = @ + 1,
                       !.n_iter_ = @ + Len(Xb),
                       !.sample_n_iter_ = BumpVisits(@, idx)]
              cnt == Take(s1.sample_n_iter_, idx)
              w == batch_weight(s1.n_iter_, Len(Xb))
              seen1 == [seen EXCEPT
                          !.batches = @ + 1,
                          !.rows = @ + Len(Xb),
                          !.visits = Vec([s \in Rows |-> @[s] + CountOf(who, s)])]
          IN \E out \in compute_code(s1, cf, Xb, idx, cnt, subset) :
               LET s2 == [s1 EXCEPT !.Dx_average_ = out.Dx_average_,
                                    !.G_average_ = out.G_average_,
                                    !.code_ = out.code_]
                   this_code == Take(s2.code_, idx)
                   b2 == [subset |-> subset, idx |-> idx, X |-> Xb, w |-> w,
                          who |-> who, warm_owner |-> Take(seen.code_owner, idx),
                          D_pre |-> self.components_, solver_G |-> out.solver_G,
                          stage |-> "code"]
                   seen2 == [seen1 EXCEPT !.code_owner = Scatter(@, idx, who)]
               IN IF out.err # NoErr
                  THEN Fail(s2, b2, out.err) /\ seen' = seen1
                  ELSE IF cf.n_threads = 1
                  THEN IF Len(Xb[1]) # nfeat
                       THEN /\ Fail([s2 EXCEPT !.C_ = update_C(@, this_code, w),
                                               !.B_ = Decay(@, w)],
                                    [b2 EXCEPT !.stage = "stat"],
                                    Raised("ValueError", 278))
                            /\ seen' = seen2
                       ELSE \E order \in Perms(n_components) :
                              LET u == update_stat_and_dict(s2, subset, Xb, this_code,
                                         w, order, cf.G_agg, cf.comp_pos)
                              IN /\ self' = [s2 EXCEPT
                                               !.C_ = u.C_, !.B_ = u.B_,
                                               !.gradient_ = u.gradient_,
                                               !.components_ = u.components_,
                                               !.G_ = u.G_,
                                               !.comp_norm_ = u.comp_norm_]
                                 /\ batch' = [b2 EXCEPT !.stage = "done"]
                                 /\ call' = [call EXCEPT !.cursor = @ + Len(Xb)]
                                 /\ seen' = [seen2 EXCEPT !.paths =
                                               Append(@, GramPath(cf.G_agg, Len(subset),
                                                                  nfeat))]
                                 /\ UNCHANGED << pc, par, err >>
                  ELSE /\ self' = [s2 EXCEPT
                                     !.gradient_ = ForkGradient(@, s2.B_, subset)]
                       /\ batch' = [b2 EXCEPT !.stage = "stat"]
                       /\ par' = [dict |-> "C", B |-> "decay", pre |-> s2,
                                  code |-> this_code, order |-> << >>,
                                  B_err |-> NoErr, joined |-> FALSE]
                       /\ pc' = "par"
                       /\ seen' = seen2
                       /\ UNCHANGED << call, err >>
  /\ UNCHANGED << cf, calls, pre >>

\* The next step of the task _update_stat_partial_and_dict: _update_C, the
\* gradient update, _update_dict.
DictTask ==
  /\ pc = "par" /\ par.dict # "done"
  /\ CASE par.dict = "C" ->
            /\ self' = [self EXCEPT !.C_ = update_C(@, par.code, batch.w)]
            /\ par' = [par EXCEPT !.dict = "gradient"]
            /\ UNCHANGED seen
       [] par.dict = "gradient" ->
            /\ self' = [self EXCEPT
                          !.gradient_ = PartialGradient(@, batch.X, par.code,
                                                        batch.w, batch.subset)]
            /\ par' = [par EXCEPT !.dict = "dict"]
            /\ UNCHANGED seen
       [] par.dict = "dict" ->
            \E order \in Perms(n_components) :
              LET d == update_dict(self.components_, self.G_, self.comp_norm_,
                                   self.C_, self.gradient_, batch.subset, order,
                                   cf.G_agg, cf.comp_pos)
              IN /\ self' = [self EXCEPT !.components_ = d.components_,
                                         !.G_ = d.G_, !.comp_norm_ = d.comp_norm_]
                 /\ par' = [par EXCEPT !.dict = "done", !.order = order]
                 /\ seen' = [seen EXCEPT !.paths =
                               Append(@, GramPath(cf.G_agg, Len(batch.subset),
                                                  Len(self.components_[1])))]
  /\ UNCHANGED << cf, pc, call, batch, err, calls, pre >>

\* The next step of the task _update_B: its first statement, then its
\* second, which raises when X has not the columns of B_.
BTask ==
  /\ pc = "par" /\ par.B # "done"
  /\ CASE par.B = "decay" ->
            /\ self' = [self EXCEPT !.B_ = Decay(@, batch.w)]
            /\ par' = [par EXCEPT !.B = "gain"]
       [] par.B = "gain" ->
            IF Len(batch.X[1]) # Len(self.B_[1])
            THEN /\ par' = [par EXCEPT !.B = "done",
                                       !.B_err = Raised("ValueError", 278)]
                 /\ UNCHANGED self
            ELSE /\ self' = [self EXCEPT
                               !.B_ = Gain(@, TMul(par.code, batch.X), batch.w,
                                           Len(batch.X))]
                 /\ par' = [par EXCEPT !.B = "done"]
  /\ UNCHANGED << cf, pc, call, batch, err, calls, pre, seen >>

\* _update_stat_and_dict_parallel returns (or raises what a task raised)
\* once both results are in, and with it _single_batch_fit.
Join ==
  /\ pc = "par" /\ JoinReady(par)
  /\ par' = [par EXCEPT !.joined = TRUE]
  /\ IF par.B_err # NoErr
     THEN /\ err' = par.B_err /\ pc' = "failed"
          /\ UNCHANGED << call, batch >>
     ELSE /\ pc' = "batch"
          /\ call' = [call EXCEPT !.cursor = @ + Len(batch.X)]
          /\ batch' = [batch EXCEPT !.stage = "done"]
          /\ UNCHANGED err
  /\ UNCHANGED << cf, self, calls, pre, seen >>

\* partial_fit returns once its batches are through.
PartialFitReturn ==
  /\ pc = "batch" /\ call.cursor = Len(call.X)
  /\ pc' = IF call.kind = "fit" THEN "epoch" ELSE "idle"
  /\ UNCHANGED << cf, self, call, batch, par, err, calls, pre, seen >>

Next ==
  \/ PrepareCall
  \/ FitCall
  \/ FitEpoch
  \/ FitReturn
  \/ PartialFitCall
  \/ SingleBatchFit
  \/ DictTask
  \/ BTask
  \/ Join
  \/ PartialFitReturn

Spec == Init /\ [][Next]_vars

\* ------------------------------------- the dictionary update on its own
\* _update_stat_and_dict driven directly: every subset of distinct feature
\* indices may come with every batch, so that the two Gram paths alternate
\* within one session.
AnySubset == UNION {SubsetsOfLen(n_features, len) : len \in 1..n_features}

\* The codes of the rows of X handed to the statistics: one atom per row,
\* the first atom alone, both atoms with opposite signs.
Codes ==
  {Mat([i \in Rows |-> [k \in Atoms |-> IF k = ((i - 1) % n_components) + 1 THEN 1 ELSE 0]]),
   Mat([i \in Rows |-> [k \in Atoms |-> IF k = 1 THEN 1 ELSE 0]]),
   Mat([i \in Rows |-> [k \in Atoms |-> IF k = 1 THEN i ELSE -1]])}

DictConfigs ==
  {c \in Configs : /\ c.G_agg \in {"full", "masked"} /\ c.Dx_agg = "full"
                   /\ c.n_threads = 1 /\ c.verbose = 1 /\ c.reduction = 1}

InitDict ==
  /\ cf \in DictConfigs
  /\ \E idx \in RandomIdx(n_samples) : self = prepare(cf, XData, idx)
  /\ pc = "dict"
  /\ call = NoCall
  /\ batch = NoBatch
  /\ par = NoPar
  /\ err = NoErr
  /\ calls = 0
  /\ pre = Unset
  /\ seen = NothingSeen

\* _update_stat_and_dict(subset, X, code, w) for the next batch.
UpdateStatAndDict ==
  /\ pc = "dict" /\ calls < MaxUpdates
  /\ \E subset \in AnySubset, code \in Codes, order \in Perms(n_components) :
       LET count == self.n_iter_ + Len(XData)
           w == batch_weight(count, Len(XData))
           u == update_stat_and_dict(self, subset, XData, code, w, order,
                                     cf.G_agg, cf.comp_pos)
       IN /\ self' = [self EXCEPT !.n_iter_ = count,
                                  !.C_ = u.C_, !.B_ = u.B_,
                                  !.gradient_ = u.gradient_,
                                  !.components_ = u.components_,
                                  !.G_ = u.G_, !.comp_norm_ = u.comp_norm_]
          /\ batch' = [NoBatch EXCEPT !.subset = subset, !.X = XData, !.w = w,
                                      !.D_pre = self.components_, !.stage = "done"]
          /\ seen' = [seen EXCEPT !.batches = @ + 1, !.rows = @ + Len(XData),
                                  !.paths = Append(@, GramPath(cf.G_agg, Len(subset),
                                                               n_features))]
  /\ calls' = calls + 1
  /\ UNCHANGED << cf, pc, call, par, err, pre >>

NextDict == UpdateStatAndDict

SpecDict == InitDict /\ [][NextDict]_vars

\* ---------------------------------------------------------------- claims
Prepared == self.has # {}
InBatch == batch.stage \in {"code", "stat", "done"}
Column(M, j) == Vec([k \in 1..Len(M) |-> M[k][j]])
\* The position-i owner of the per-row state: fit permutes the rows of X, a
\* caller of partial_fit names the samples itself.
RowOwner(i) == IF call.kind = "fit" THEN call.rowid[i] ELSE i

\* C1: with G_agg = 'masked' code inference never fails for want of the
\* per-row Gram cache G_average_, and the Gram matrix it hands to the solver
\* is, for every row of the batch, reduction times the Gram matrix of the
\* subset columns of the dictionary.
C1_MaskedGramFromSubset ==
  cf.G_agg = "masked" =>
    /\ err # Raised("AttributeError", 326)
    /\ (InBatch /\ err = NoErr) =>
         \A j \in 1..Len(batch.solver_G) :
           batch.solver_G[j] =
             MatScale(MulT(Cols(batch.D_pre, batch.subset),
                           Cols(batch.D_pre, batch.subset)), cf.reduction)

\* C2: fit on a fresh engine with verbose = 0 raises nothing, and when it
\* returns it has processed ceil(n_samples / batch_size) batches per epoch
\* and left components_ of shape n_components x n_features and code_ of
\* shape n_samples x n_components.  (What the permutation of the cached
\* state raises under 'average' is C3's; it is set aside here.)
C2_QuietFitCompletes ==
  (/\ call.kind = "fit" /\ cf.verbose = 0
   /\ err \notin {Raised("AttributeError", 87), Raised("AttributeError", 89)}) =>
    /\ err = NoErr
    /\ pc = "idle" =>
         /\ seen.batches = n_epochs * CeilDiv(n_samples, batch_size)
         /\ Len(self.components_) = n_components
         /\ Len(self.components_[1]) = n_features
         /\ Len(self.code_) = n_samples
         /\ Len(self.code_[1]) = n_components

\* C3: in fit with G_agg or Dx_agg = 'average' the permutation of the
\* per-row cached state raises nothing, and every batch finds the visit
\* counter of a position to be that of the sample now at this row of X.
C3_AverageStatePermuted ==
  (call.kind = "fit" /\ (cf.G_agg = "average" \/ cf.Dx_agg = "average")) =>
    /\ err \notin {Raised("AttributeError", 87), Raised("AttributeError", 89)}
    /\ pc = "batch" =>
         \A i \in 1..Len(call.X) : self.sample_n_iter_[i] = seen.visits[call.rowid[i]]

\* C4: _update_stat_and_dict_parallel returns only when both of its tasks
\* are through, and then, whatever the interleaving of their steps, C_, B_,
\* components_ and G_ (and gradient_, comp_norm_) are what
\* _update_stat_and_dict makes of the same state, batch, weight and order.
C4_ParallelAsSequential ==
  par.joined =>
    /\ JoinReady(par)
    /\ par.B_err = NoErr =>
         LET u == update_stat_and_dict(par.pre, batch.subset, batch.X, par.code,
                                       batch.w, par.order, cf.G_agg, cf.comp_pos)
         IN /\ self.C_ = u.C_ /\ self.B_ = u.B_
            /\ self.components_ = u.components_ /\ self.G_ = u.G_
            /\ self.gradient_ = u.gradient_ /\ self.comp_norm_ = u.comp_norm_
C4_SecondParallelBatch ==
  /\ par.joined /\ par.B_err = NoErr /\ calls = 2
  /\ cf.G_agg = "full" /\ cf.reduction = n_features
  /\ self.components_ # par.pre.components_
  /\ self.B_ # par.pre.B_
  /\ \E j \in Range(batch.subset) :
       Column(par.pre.gradient_, j) # Column(par.pre.B_, j)

\* C5: with G_agg = 'full', G_ is components_ . components_^T after prepare
\* and after every _update_dict, whatever the subsets and whichever of the
\* two paths each update took.
C5_GramOfDictionary ==
  (Prepared /\ cf.G_agg = "full") =>
    self.G_ = MulT(self.components_, self.components_)
C5_PathsAlternated ==
  /\ cf.G_agg = "full" /\ Len(seen.paths) = 2
  /\ seen.paths[1] # seen.paths[2]
  /\ self.components_ # batch.D_pre
  /\ cf.comp_pos

\* C6: after prepare and after every _update_dict every atom has norm at
\* most 1 over all its entries, and for every subset the next update may
\* draw, the radius it would hand to the projection of the atom's subset
\* entries is at most 1 less the norm of the entries outside the subset.
C6_AtomsInBall ==
  Prepared =>
    \A k \in Atoms :
      /\ enet_norm_fast(self.components_[k]) <= Unit
      /\ \A subset \in AnySubset :
           LET inside == enet_norm_fast(Cols(self.components_, subset)[k])
               outside == enet_norm_fast(self.components_[k]) - inside
           IN ProjectionRadius(self.comp_norm_[k] + inside) <= Unit - outside
C6_ShrunkAtom ==
  /\ calls = 2 /\ Len(batch.subset) < n_features
  /\ \E k \in Atoms :
       /\ self.comp_norm_[k] > 0
       /\ enet_norm_fast(self.components_[k]) > 0
       /\ self.components_[k] # batch.D_pre[k]

\* C7: while a batch is the current one, every column of components_ outside
\* the batch's subset is as the batch found it.
C7_OtherColumnsKept ==
  InBatch =>
    \A j \in Feats \ Range(batch.subset) :
      Column(self.components_, j) = Column(batch.D_pre, j)
C7_OneColumnChanged ==
  /\ batch.stage = "done" /\ cf.reduction = n_features /\ cf.comp_pos
  /\ Len(batch.subset) = 1
  /\ self.components_ # batch.D_pre

\* C8: a partial_fit whose X has not the n_features columns of the session
\* fails, and with n_iter_, the visit counters, the feature sampler, code_,
\* C_, B_ and components_ as they were when it was called.
C8_MismatchChangesNothing ==
  (call.kind = "partial_fit" /\ Len(call.X[1]) # n_features) =>
    /\ pc # "idle"
    /\ pc = "failed" =>
         /\ self.n_iter_ = pre.n_iter_
         /\ self.sample_n_iter_ = pre.sample_n_iter_
         /\ self.feature_sampler_ = pre.feature_sampler_
         /\ self.code_ = pre.code_
         /\ self.C_ = pre.C_
         /\ self.B_ = pre.B_
         /\ self.components_ = pre.components_

\* C9: in a session n_iter_ is the number of rows the processed batches
\* held, and the visit counter of a sample is the number of times its id
\* appeared in their row ids.
C9_CountersCountAppearances ==
  Prepared =>
    /\ self.n_iter_ = seen.rows
    /\ \A i \in 1..Len(self.sample_n_iter_) :
         self.sample_n_iter_[i] = seen.visits[RowOwner(i)]

\* C10: in fit the code that warm-starts a row in an epoch after the first
\* is the code last inferred for the same sample, and when fit returns row i
\* of code_ is the code last inferred for row i of the caller's X.
C10_CodeFollowsSample ==
  (call.kind = "fit" /\ err = NoErr) =>
    /\ (call.epoch >= 2 /\ call.cursor > 0 /\ InBatch) =>
         batch.warm_owner = batch.who
    /\ (pc = "idle") => seen.code_owner = Identity(n_samples)

====
